---- MODULE Spec2Model ----
(***************************************************************************)
(* A model of svg2latex: the affine transform algebra, the transform and   *)
(* length parsers, the accumulated-transform walker and the extraction     *)
(* pipeline of svg2pdf.py, together with the near-duplicate transform code *)
(* of svg2latex.py.                                                        *)
(*                                                                         *)
(* Texts are sequences of one-character strings.  Numbers produced by the  *)
(* length parser are exact decimal rationals [n, d, e] = n/d * 10^e (the   *)
(* source uses binary floating point; rounding is not modelled).           *)
(***************************************************************************)
EXTENDS Integers, Sequences, FiniteSets, TLC

(***************************************************************************)
(* Bounds of the model.                                                    *)
(***************************************************************************)
MaxLen == 4
MaxCoef == 1
MaxScale == 2
MaxNodes == 3

(***************************************************************************)
(* Exact numbers: n/d * 10^e with d > 0 coprime to 10, gcd(n,d) = 1 and    *)
(* 10 not dividing n (zero is [0,1,0]).  The form is unique, so equality   *)
(* of records is equality of numbers.                                      *)
(***************************************************************************)
Abs(i) == IF i < 0 THEN -i ELSE i

RECURSIVE Gcd(_, _)
Gcd(a, b) == IF b = 0 THEN a ELSE Gcd(b, a % b)

RECURSIVE Pow10(_)
Pow10(k) == IF k <= 0 THEN 1 ELSE 10 * Pow10(k - 1)

RECURSIVE NumNorm(_, _, _)
NumNorm(n, d, e) ==
    IF n = 0 THEN [n |-> 0, d |-> 1, e |-> 0]
    ELSE IF d % 2 = 0 THEN NumNorm(n * 5, d \div 2, e - 1)
    ELSE IF d % 5 = 0 THEN NumNorm(n * 2, d \div 5, e - 1)
    ELSE IF n % 10 = 0 THEN NumNorm(n \div 10, d, e + 1)
    ELSE LET g == Gcd(Abs(n), d)
         IN  [n |-> n \div g, d |-> d \div g, e |-> e]

NumInt(i) == NumNorm(i, 1, 0)
NumDec(i, k) == NumNorm(i, 1, -k)           \* the decimal literal i * 10^-k
NumMul(a, b) == NumNorm(a.n * b.n, a.d * b.d, a.e + b.e)
NumDiv(a, b) ==
    IF b.n < 0 THEN NumNorm(-(a.n * b.d), a.d * (-b.n), a.e - b.e)
    ELSE NumNorm(a.n * b.d, a.d * b.n, a.e - b.e)
NumIsInt(a) == a.d = 1 /\ a.e >= 0
NumToInt(a) == a.n * Pow10(a.e)

(***************************************************************************)
(* Per-unit scale table.                                                   *)
(***************************************************************************)
INKSCAPE_DPI == NumInt(90)

UnitNames == {"", "px", "in", "cm", "mm", "pt", "pc"}

UNIT_SCALE_TO_USER_UNITS(u) ==
    CASE u = ""   -> NumInt(1)
      [] u = "px" -> NumInt(1)
      [] u = "in" -> INKSCAPE_DPI
      [] u = "cm" -> NumDiv(INKSCAPE_DPI, NumDec(254, 2))
      [] u = "mm" -> NumDiv(INKSCAPE_DPI, NumDec(254, 1))
      [] u = "pt" -> NumDiv(INKSCAPE_DPI, NumInt(72))
      [] u = "pc" -> NumDiv(NumMul(INKSCAPE_DPI, NumInt(12)), NumInt(72))

(***************************************************************************)
(* RX_LENGTH, matched the way re.match does: anchored at the start only,   *)
(* greedy, case-insensitive.  Every part after the mantissa is optional,   *)
(* so the first (greedy) path that matches the mantissa is the match.      *)
(***************************************************************************)
Digits == {"0", "1", "2", "3", "4", "5", "6", "7", "8", "9"}
IsDigitAt(s, i) == i <= Len(s) /\ s[i] \in Digits
IsSignAt(s, i) == i <= Len(s) /\ s[i] \in {"+", "-"}
IsSpace(c) == c \in {" "}

Lower(c) ==
    CASE c = "E" -> "e" [] c = "M" -> "m" [] c = "X" -> "x" [] c = "P" -> "p"
      [] c = "I" -> "i" [] c = "N" -> "n" [] c = "C" -> "c" [] c = "T" -> "t"
      [] OTHER -> c

RECURSIVE SkipSpaces(_, _)
SkipSpaces(s, i) == IF i <= Len(s) /\ IsSpace(s[i]) THEN SkipSpaces(s, i + 1) ELSE i

RECURSIVE SkipDigits(_, _)
SkipDigits(s, i) == IF IsDigitAt(s, i) THEN SkipDigits(s, i + 1) ELSE i

\* (?: [0-9]+ \.? | \. [0-9] ) [0-9]*  from position i: the position after
\* the mantissa, or 0 when there is none.
MantissaEnd(s, i) ==
    IF IsDigitAt(s, i)
    THEN LET j == SkipDigits(s, i)
             k == IF j <= Len(s) /\ s[j] = "." THEN j + 1 ELSE j
         IN  SkipDigits(s, k)
    ELSE IF i <= Len(s) /\ s[i] = "." /\ IsDigitAt(s, i + 1)
    THEN SkipDigits(s, i + 2)
    ELSE 0

\* (?: e [+-]? [0-9]+ )?  from position i: the position after it (i itself
\* when the optional group matches nothing).
ExponentEnd(s, i) ==
    IF i <= Len(s) /\ Lower(s[i]) = "e"
    THEN LET j == IF IsSignAt(s, i + 1) THEN i + 2 ELSE i + 1
         IN  IF IsDigitAt(s, j) THEN SkipDigits(s, j) ELSE i
    ELSE i

UnitAlternatives == <<"em", "ex", "px", "in", "cm", "mm", "pt", "pc">>

TwoAt(s, i) == IF i + 1 <= Len(s) THEN <<Lower(s[i]), Lower(s[i + 1])>> ELSE <<>>

UnitChars(u) ==
    CASE u = "em" -> <<"e", "m">> [] u = "ex" -> <<"e", "x">>
      [] u = "px" -> <<"p", "x">> [] u = "in" -> <<"i", "n">>
      [] u = "cm" -> <<"c", "m">> [] u = "mm" -> <<"m", "m">>
      [] u = "pt" -> <<"p", "t">> [] u = "pc" -> <<"p", "c">>
      [] u = "%"  -> <<"%">>
      [] OTHER    -> <<>>

\* The text of group 'unit' as matched (keeps the case of the input), or
\* <<>> for None.
UnitAt(s, i) ==
    IF \E k \in 1..Len(UnitAlternatives) : TwoAt(s, i) = UnitChars(UnitAlternatives[k])
    THEN <<s[i], s[i + 1]>>
    ELSE IF i <= Len(s) /\ s[i] = "%" THEN <<"%">>
    ELSE <<>>

\* The match: [ok, vfrom, vto, unit, end]; group 'value' is s[vfrom..vto-1].
RX_LENGTH(s) ==
    LET i0 == SkipSpaces(s, 1)
        i1 == IF IsSignAt(s, i0) THEN i0 + 1 ELSE i0
        m  == MantissaEnd(s, i1)
    IN  IF m = 0
        THEN [ok |-> FALSE, vfrom |-> 0, vto |-> 0, unit |-> <<>>, end |-> 0]
        ELSE LET x == ExponentEnd(s, m)
                 u == UnitAt(s, x)
             IN  [ok |-> TRUE, vfrom |-> i0, vto |-> x, unit |-> u,
                  end |-> SkipSpaces(s, x + Len(u)) - 1]

(***************************************************************************)
(* float() of a matched value token.                                       *)
(***************************************************************************)
DigitVal(c) ==
    CASE c = "0" -> 0 [] c = "1" -> 1 [] c = "2" -> 2 [] c = "3" -> 3
      [] c = "4" -> 4 [] c = "5" -> 5 [] c = "6" -> 6 [] c = "7" -> 7
      [] c = "8" -> 8 [] c = "9" -> 9

\* the digits of s[i..j-1] read as a decimal integer, skipping a "."
RECURSIVE DigitsVal(_, _, _, _)
DigitsVal(s, i, j, acc) ==
    IF i >= j THEN acc
    ELSE IF s[i] = "." THEN DigitsVal(s, i + 1, j, acc)
    ELSE DigitsVal(s, i + 1, j, acc * 10 + DigitVal(s[i]))

\* how many digits of s[i..j-1] follow the "."
RECURSIVE FracLen(_, _, _)
FracLen(s, i, j) ==
    IF i >= j THEN 0
    ELSE IF s[i] = "." THEN j - i - 1
    ELSE FracLen(s, i + 1, j)

Float(s, vfrom, vto) ==
    LET neg  == s[vfrom] = "-"
        i1   == IF IsSignAt(s, vfrom) THEN vfrom + 1 ELSE vfrom
        m    == MantissaEnd(s, i1)
        mant == DigitsVal(s, i1, m, 0)
        frac == FracLen(s, i1, m)
        eneg == m < vto /\ IsSignAt(s, m + 1) /\ s[m + 1] = "-"
        e1   == IF m < vto /\ IsSignAt(s, m + 1) THEN m + 2 ELSE m + 1
        ex   == IF m < vto THEN DigitsVal(s, e1, vto, 0) ELSE 0
    IN  NumNorm(IF neg THEN -mant ELSE mant, 1,
                (IF eneg THEN -ex ELSE ex) - frac)

UnitString(u) ==
    CASE u = <<"e", "m">> -> "em" [] u = <<"e", "x">> -> "ex"
      [] u = <<"p", "x">> -> "px" [] u = <<"i", "n">> -> "in"
      [] u = <<"c", "m">> -> "cm" [] u = <<"m", "m">> -> "mm"
      [] u = <<"p", "t">> -> "pt" [] u = <<"p", "c">> -> "pc"
      [] u = <<"%">>      -> "%"
      [] u = <<>>         -> "None"
      [] OTHER            -> "other"    \* a unit matched in upper case

(***************************************************************************)
(* svg_parse_length: [ok, value, unit, err].                               *)
(***************************************************************************)
LengthError(e) == [ok |-> FALSE, value |-> NumInt(0), unit |-> "None", err |-> e]
LengthValue(v, u) == [ok |-> TRUE, value |-> v, unit |-> u, err |-> "none"]

svg_parse_length(textarg, apply_unit) ==
    LET m == RX_LENGTH(textarg)
    IN  IF m.ok
        THEN LET raw_value == Float(textarg, m.vfrom, m.vto)
                 unit      == UnitString(m.unit)
             IN  IF apply_unit
                 THEN IF unit # "None"
                      THEN IF unit \in UnitNames
                           THEN LengthValue(UNIT_SCALE_TO_USER_UNITS(unit), "None")
                           ELSE LengthError("KeyError")
                      ELSE LengthValue(raw_value, "None")
                 ELSE LengthValue(raw_value, unit)
        ELSE LengthError("invalid length")

(***************************************************************************)
(* class AffineTransform (svg2pdf.py).  A transform is [t, m] with         *)
(* t = <<e, f>> and m = <<a, b, c, d>>: p' = (a*x + c*y + e, b*x + d*y + f)*)
(* The mutating methods are operators from the receiver's value to its     *)
(* value after the call.                                                   *)
(***************************************************************************)
AffineTransform == [t |-> <<0, 0>>, m |-> <<1, 0, 0, 1>>]

matrix(s, a, b, c, d, e, f) ==
    LET sa == s.m[1]  sb == s.m[2]  sc == s.m[3]  sd == s.m[4]
        se == s.t[1]  sf == s.t[2]
    IN  [m |-> <<sa * a + sc * b, sb * a + sd * b, sa * c + sc * d, sb * c + sd * d>>,
         t |-> <<sa * e + sc * f + se, sb * e + sd * f + sf>>]

translate(s, tx, ty) == matrix(s, 1, 0, 0, 1, tx, ty)

scale(s, sx, sy) == matrix(s, sx, 0, 0, sy, 0, 0)

applyTo(s, x, y) ==
    <<s.t[1] + s.m[1] * x + s.m[3] * y, s.t[2] + s.m[2] * x + s.m[4] * y>>

\* a product that drops the left operand's translation
mul_without_translation(a, b) ==
    [t |-> <<a.m[1] * b.t[1] + a.m[3] * b.t[2], a.m[2] * b.t[1] + a.m[4] * b.t[2]>>,
     m |-> <<a.m[1] * b.m[1] + a.m[3] * b.m[2], a.m[2] * b.m[1] + a.m[4] * b.m[2],
             a.m[1] * b.m[3] + a.m[3] * b.m[4], a.m[2] * b.m[3] + a.m[4] * b.m[4]>>]

__mul__(a, b) ==
    LET a11 == a.m[1]  a21 == a.m[2]  a12 == a.m[3]  a22 == a.m[4]
        a13 == a.t[1]  a23 == a.t[2]
        b11 == b.m[1]  b21 == b.m[2]  b12 == b.m[3]  b22 == b.m[4]
        b13 == b.t[1]  b23 == b.t[2]
        c11 == a11 * b11 + a12 * b21
        c12 == a11 * b12 + a12 * b22
        c13 == a11 * b13 + a12 * b23 + a13
        c21 == a21 * b11 + a22 * b21
        c22 == a21 * b12 + a22 * b22
        c23 == a21 * b13 + a22 * b23 + a23
    IN  [t |-> <<c13, c23>>, m |-> <<c11, c21, c12, c22>>]

(***************************************************************************)
(* class AffineTransform (svg2latex.py): the same code except for scale.   *)
(***************************************************************************)
latex_matrix(s, a, b, c, d, e, f) ==
    LET sa == s.m[1]  sb == s.m[2]  sc == s.m[3]  sd == s.m[4]
        se == s.t[1]  sf == s.t[2]
    IN  [m |-> <<sa * a + sc * b, sb * a + sd * b, sa * c + sc * d, sb * c + sd * d>>,
         t |-> <<sa * e + sc * f + se, sb * e + sd * f + sf>>]

latex_translate(s, tx, ty) == latex_matrix(s, 1, 0, 0, 1, tx, ty)

latex_scale(s, sx, sy) == latex_matrix(s, sx, 0, sy, 0, 0, 0)

latex_applyTo(s, x, y) ==
    <<s.t[1] + s.m[1] * x + s.m[3] * y, s.t[2] + s.m[2] * x + s.m[4] * y>>

latex__mul__(a, b) ==
    LET a11 == a.m[1]  a21 == a.m[2]  a12 == a.m[3]  a22 == a.m[4]
        a13 == a.t[1]  a23 == a.t[2]
        b11 == b.m[1]  b21 == b.m[2]  b12 == b.m[3]  b22 == b.m[4]
        b13 == b.t[1]  b23 == b.t[2]
        c11 == a11 * b11 + a12 * b21
        c12 == a11 * b12 + a12 * b22
        c13 == a11 * b13 + a12 * b23 + a13
        c21 == a21 * b11 + a22 * b21
        c22 == a21 * b12 + a22 * b22
        c23 == a21 * b13 + a22 * b23 + a23
    IN  [t |-> <<c13, c23>>, m |-> <<c11, c21, c12, c22>>]

(***************************************************************************)
(* The transform parsers.  A transform attribute that RX_TRANSFORM matches *)
(* is given tokenised: [func, args], args the list of numbers between the  *)
(* parentheses, comma separated.  The result is [ok, xform, err].          *)
(***************************************************************************)
XfError(e) == [ok |-> FALSE, xform |-> AffineTransform, err |-> e]
XfValue(x) == [ok |-> TRUE, xform |-> x, err |-> "none"]

svg_parse_transform(attribute) ==
    LET func == attribute.func
        args == attribute.args
    IN  IF func = "matrix"
        THEN IF Len(args) # 6
             THEN XfError("bad matrix transform")
             ELSE XfValue(matrix(AffineTransform, args[1], args[2], args[3],
                                 args[4], args[5], args[6]))
        ELSE IF func = "translate"
        THEN IF Len(args) < 1 \/ Len(args) > 2
             THEN XfError("bad translate transform")
             ELSE LET tx == args[1]
                      ty == IF Len(args) > 1 THEN args[2] ELSE 0
                  IN  XfValue(translate(AffineTransform, tx, ty))
        ELSE IF func = "scale"
        THEN IF Len(args) < 1 \/ Len(args) > 2
             THEN XfError("bad scale transform")
             ELSE LET sx == args[1]
                      sy == IF Len(args) > 1 THEN args[2] ELSE sx
                  IN  XfValue(scale(AffineTransform, sx, sy))
        ELSE XfError("unsupported transform attribute")

parse_svg_transform(attribute) ==
    LET func == attribute.func
        args == attribute.args
    IN  IF func = "matrix"
        THEN IF Len(args) # 6
             THEN XfError("bad matrix transform")
             ELSE XfValue(latex_matrix(AffineTransform, args[1], args[2], args[3],
                                       args[4], args[5], args[6]))
        ELSE IF func = "translate"
        THEN IF Len(args) < 1 \/ Len(args) > 2
             THEN XfError("bad translate transform")
             ELSE LET tx == args[1]
                      ty == IF Len(args) > 1 THEN args[2] ELSE 0
                  IN  XfValue(latex_translate(AffineTransform, tx, ty))
        ELSE IF func = "scale"
        THEN IF Len(args) < 1 \/ Len(args) > 2
             THEN XfError("bad scale transform")
             ELSE LET sx == args[1]
                      sy == IF Len(args) > 1 THEN args[2] ELSE sx
                  IN  XfValue(latex_translate(AffineTransform, sx, sy))
        ELSE XfError("unsupported transform attribute")

(***************************************************************************)
(* State.                                                                  *)
(*   length parser:   text, lenpc, lenres                                  *)
(*   transform code:  impl (which file's class), pt, xfA, xfB, operands,   *)
(*                    xfC, lhs, mid, rhs, idimg                            *)
(*   scale:           sargs, xf, how, img                                  *)
(*   conversion run:  doc, parent, pic, image_id, preamble_files, queue,   *)
(*                    pc, workdir, calls, err, svgfile, texfile            *)
(*   accumulation:    accel (the element passed), accres, accimg           *)
(***************************************************************************)
VARIABLES text, lenpc, lenres,
          impl, pt, xfA, xfB, operands, xfC, lhs, mid, rhs, idimg,
          sargs, xf, how, img,
          doc, parent, pic, image_id, preamble_files, queue, pc,
          workdir, calls, err, svgfile, texfile,
          accel, accres, accimg

lenVars == <<text, lenpc, lenres>>
algVars == <<xfA, xfB, operands, xfC, lhs, mid, rhs, idimg>>
scaleVars == <<sargs, xf, how, img>>
runVars == <<doc, parent, pic, image_id, preamble_files, queue, pc,
             workdir, calls, err, svgfile, texfile>>
accVars == <<accel, accres, accimg>>
vars == <<lenVars, impl, pt, algVars, scaleVars, runVars, accVars>>

NoXf == [t |-> <<>>, m |-> <<>>]
NoPt == <<>>
NoLen == [ok |-> FALSE, value |-> NumInt(0), unit |-> "None", err |-> "not called"]
NoPic == [width |-> 0, height |-> 0, nodes |-> <<>>, extra_preamble |-> <<>>]

LenIdle == text = <<>> /\ lenpc = "idle" /\ lenres = NoLen
AlgIdle ==
    /\ xfA = NoXf /\ xfB = NoXf /\ operands = <<NoXf, NoXf>> /\ xfC = NoXf
    /\ lhs = NoPt /\ mid = NoPt /\ rhs = NoPt /\ idimg = NoPt
ScaleIdle == sargs = <<>> /\ xf = NoXf /\ how = "idle" /\ img = NoPt
RunIdle ==
    /\ doc = <<>> /\ parent = <<>> /\ pic = NoPic /\ image_id = 0
    /\ preamble_files = {} /\ queue = <<>> /\ pc = "idle"
    /\ workdir = {} /\ calls = <<>> /\ err = "none"
    /\ svgfile = {} /\ texfile = <<>>
NoAcc == [ok |-> FALSE, xform |-> NoXf, err |-> "not called"]
AccIdle == accel = 0 /\ accres = NoAcc /\ accimg = NoPt

(***************************************************************************)
(* The length parser called on a text.                                     *)
(***************************************************************************)
Alphabet == {"1", "2", ".", "-", "e", "m", "M", "x", "p", "i", "n", "c", "t", "%", " "}
Texts == UNION {[1..k -> Alphabet] : k \in 0..MaxLen}

LenInit ==
    /\ text \in Texts /\ lenpc = "ready" /\ lenres = NoLen
    /\ impl = "svg2pdf" /\ pt = NoPt
    /\ AlgIdle /\ ScaleIdle /\ RunIdle /\ AccIdle

\* svg_parse_length(text), apply_unit left at its default True
ParseLengthApplied ==
    /\ lenpc = "ready"
    /\ lenres' = svg_parse_length(text, TRUE)
    /\ lenpc' = "applied"
    /\ UNCHANGED <<text, impl, pt, algVars, scaleVars, runVars, accVars>>

\* svg_parse_length(text, apply_unit=False)
ParseLengthRaw ==
    /\ lenpc = "ready"
    /\ lenres' = svg_parse_length(text, FALSE)
    /\ lenpc' = "raw"
    /\ UNCHANGED <<text, impl, pt, algVars, scaleVars, runVars, accVars>>

LenNext == ParseLengthApplied \/ ParseLengthRaw

SpecLen == LenInit /\ [][LenNext]_vars

(***************************************************************************)
(* The transform algebra of either file, on two transforms and a point:    *)
(* the product and its image of the point, then the two images in turn,    *)
(* then the identity's image.                                              *)
(***************************************************************************)
Impls == {"svg2pdf", "svg2latex"}
Coefs == 0..MaxCoef
Offsets == 0..1
Points == {<<x, y>> : x \in -1..1, y \in 0..1}
Transforms == {[t |-> <<e, f>>, m |-> <<a, b, c, d>>] :
                 e \in Offsets, f \in Offsets,
                 a \in Coefs, b \in Coefs, c \in Coefs, d \in Coefs}

Mul(i, a, b) == IF i = "svg2pdf" THEN __mul__(a, b) ELSE latex__mul__(a, b)
Apply(i, s, p) == IF i = "svg2pdf" THEN applyTo(s, p[1], p[2]) ELSE latex_applyTo(s, p[1], p[2])

AlgInit ==
    /\ impl \in Impls /\ pt \in Points
    /\ xfA \in Transforms /\ xfB \in Transforms
    /\ operands = <<xfA, xfB>>
    /\ xfC = NoXf /\ lhs = NoPt /\ mid = NoPt /\ rhs = NoPt /\ idimg = NoPt
    /\ LenIdle /\ ScaleIdle /\ RunIdle /\ AccIdle

\* xfC = xfA * xfB
CallMul ==
    /\ xfC = NoXf
    /\ xfC' = Mul(impl, xfA, xfB)
    /\ UNCHANGED <<lenVars, impl, pt, xfA, xfB, operands, lhs, mid, rhs, idimg,
                   scaleVars, runVars, accVars>>

\* lhs = (xfA * xfB).applyTo(pt)
CallApplyProduct ==
    /\ xfC # NoXf /\ lhs = NoPt
    /\ lhs' = Apply(impl, xfC, pt)
    /\ UNCHANGED <<lenVars, impl, pt, xfA, xfB, operands, xfC, mid, rhs, idimg,
                   scaleVars, runVars, accVars>>

\* mid = xfB.applyTo(pt)
CallApplyB ==
    /\ lhs # NoPt /\ mid = NoPt
    /\ mid' = Apply(impl, xfB, pt)
    /\ UNCHANGED <<lenVars, impl, pt, xfA, xfB, operands, xfC, lhs, rhs, idimg,
                   scaleVars, runVars, accVars>>

\* rhs = xfA.applyTo(mid)
CallApplyA ==
    /\ mid # NoPt /\ rhs = NoPt
    /\ rhs' = Apply(impl, xfA, mid)
    /\ UNCHANGED <<lenVars, impl, pt, xfA, xfB, operands, xfC, lhs, mid, idimg,
                   scaleVars, runVars, accVars>>

\* idimg = AffineTransform().applyTo(pt)
CallApplyIdentity ==
    /\ rhs # NoPt /\ idimg = NoPt
    /\ idimg' = Apply(impl, AffineTransform, pt)
    /\ UNCHANGED <<lenVars, impl, pt, xfA, xfB, operands, xfC, lhs, mid, rhs,
                   scaleVars, runVars, accVars>>

AlgNext ==
    CallMul \/ CallApplyProduct \/ CallApplyB \/ CallApplyA \/ CallApplyIdentity

SpecAlg == AlgInit /\ [][AlgNext]_vars

(***************************************************************************)
(* scale: the method on a fresh transform, and the parsed text             *)
(* "scale(sx,sy)" / "scale(sx)", in either file.                           *)
(***************************************************************************)
Scales == -1..MaxScale
ScaleArgs == {<<sx>> : sx \in Scales} \cup {<<sx, sy>> : sx \in Scales, sy \in Scales}

ScaleInit ==
    /\ impl \in Impls /\ pt \in Points
    /\ sargs \in ScaleArgs /\ xf = NoXf /\ how = "ready" /\ img = NoPt
    /\ LenIdle /\ AlgIdle /\ RunIdle /\ AccIdle

\* xf = AffineTransform(); xf.scale(sx) or xf.scale(sx, sy)
CallScale ==
    /\ how = "ready"
    /\ LET sx == sargs[1]
           sy == IF Len(sargs) > 1 THEN sargs[2] ELSE sx    \* if sy is None: sy = sx
       IN  xf' = IF impl = "svg2pdf" THEN scale(AffineTransform, sx, sy)
                 ELSE latex_scale(AffineTransform, sx, sy)
    /\ how' = "scale"
    /\ UNCHANGED <<lenVars, impl, pt, algVars, sargs, img, runVars, accVars>>

\* xf = the transform parsed from the text scale(...)
CallParseScale ==
    /\ how = "ready"
    /\ LET attribute == [func |-> "scale", args |-> sargs]
       IN  xf' = IF impl = "svg2pdf" THEN svg_parse_transform(attribute).xform
                 ELSE parse_svg_transform(attribute).xform
    /\ how' = "parse"
    /\ UNCHANGED <<lenVars, impl, pt, algVars, sargs, img, runVars, accVars>>

\* img = xf.applyTo(pt)
CallApplyScaled ==
    /\ how \in {"scale", "parse"} /\ img = NoPt
    /\ img' = Apply(impl, xf, pt)
    /\ UNCHANGED <<lenVars, impl, pt, algVars, sargs, xf, how, runVars, accVars>>

ScaleNext == CallScale \/ CallParseScale \/ CallApplyScaled

SpecScale == ScaleInit /\ [][ScaleNext]_vars

(***************************************************************************)
(* A conversion run of svg2pdf.py (do_svg2pdf).                            *)
(*                                                                         *)
(* The document is a sequence of nodes numbered in document order, node 1  *)
(* the root <svg>.  doc holds what the run never changes (tag, attributes, *)
(* original parent); parent holds the working tree's parent links, 0 for   *)
(* None: el.getparent().remove(el) sets parent[el] to 0 and leaves the     *)
(* links inside the removed subtree alone.                                 *)
(***************************************************************************)
NoAttr == [func |-> "", args |-> <<>>]                  \* no transform attribute
Translate12 == [func |-> "translate", args |-> <<1, 2>>]
Rotation12 == [func |-> "matrix", args |-> <<0, 1, -1, 0, 1, 2>>]
Rotate90 == [func |-> "rotate", args |-> <<90>>]          \* not a supported function

PngA == <<"a", ".", "png">>
PngB == <<"b", ".", "png">>
JpgC == <<"c", ".", "jpg">>
PngGone == <<"gone", ".", "png">>
SourceFiles == {PngA, PngB, JpgC}                        \* files under svg_dir

Preamble1 == <<"p1.tex">>
Preamble2 == <<"p2.tex">>
PreambleGone == <<"gone.tex">>
PreambleLines(path) ==                                   \* fl.readlines()
    CASE path = Preamble1 -> <<"line1">>
      [] path = Preamble2 -> <<"line2">>
      [] OTHER -> <<>>
ReadableFiles == {Preamble1, Preamble2}

\* attribute values: <<>> stands for an absent attribute
Plain(tag) == [tag |-> tag, textext |-> <<>>, preamble |-> <<>>, href |-> <<>>,
               width |-> <<>>, height |-> <<>>, y |-> <<>>]
Annot(tag, pre) == [Plain(tag) EXCEPT !.textext = <<"x", "\\", "n", "y">>,
                                      !.preamble = pre]
Image(href, w) == [Plain("image") EXCEPT !.href = href, !.width = w,
                                         !.height = <<"3">>, !.y = <<"1">>]
RootNode == [Plain("svg") EXCEPT !.width = <<"8">>, !.height = <<"9">>]

With(kind, attrs) == {[node |-> kind, transform |-> tr] : tr \in attrs}

\* the nodes a document is made of: a node with its transform attribute
NodeChoices ==
    UNION {With(kind, {NoAttr, Translate12, Rotation12}) :
             kind \in {Plain("g"), Plain("text"),
                       Annot("g", Preamble1), Annot("g", Preamble2),
                       Annot("g", PreambleGone), Annot("text", Preamble1),
                       Image(PngA, <<"2">>), Image(PngB, <<"2">>),
                       Image(JpgC, <<"2">>), Image(PngGone, <<"2">>),
                       Image(PngA, <<>>)}}
    \cup With(Plain("g"), {Rotate90})

RECURSIVE IsAncestorOrSelf(_, _, _)
IsAncestorOrSelf(a, n, up) ==
    IF n = 0 THEN FALSE
    ELSE IF a = n THEN TRUE
    ELSE IsAncestorOrSelf(a, up[n], up)

\* parent functions of the trees on 1..n whose numbering is document order
Trees(n) ==
    {up \in [1..n -> 0..n] :
        /\ up[1] = 0
        /\ \A i \in 2..n : up[i] \in 1..(i - 1)
        /\ \A i \in 3..n : IsAncestorOrSelf(up[i], i - 1, up)}

MkDoc(n, up, choice) ==
    [i \in 1..n |->
        IF i = 1
        THEN [node |-> RootNode, transform |-> NoAttr, up |-> 0]
        ELSE [node |-> choice[i].node, transform |-> choice[i].transform, up |-> up[i]]]

Nodes == 1..Len(doc)

RECURSIVE InTree(_, _)
InTree(n, par) ==
    IF n = 1 THEN TRUE
    ELSE IF par[n] = 0 THEN FALSE
    ELSE InTree(par[n], par)

RECURSIVE Ascending(_, _, _)
Ascending(S, i, n) ==
    IF i > n THEN <<>>
    ELSE IF i \in S THEN <<i>> \o Ascending(S, i + 1, n)
    ELSE Ascending(S, i + 1, n)

\* svgroot.xpath(...): the matching nodes of the working tree, document order
xpath(matching, par) ==
    Ascending({n \in matching : InTree(n, par)}, 1, Len(doc))

IsImage(n) == doc[n].node.tag = "image"
IsText(n) == doc[n].node.tag = "text"
HasTextext(n) == doc[n].node.textext # <<>>

\* an accumulation that composes each ancestor's transform on the right
RECURSIVE accumulate_on_the_right(_, _, _)
accumulate_on_the_right(elem, acc, par) ==
    IF elem = 0 THEN XfValue(acc)
    ELSE IF doc[elem].transform # NoAttr
    THEN LET parsed == svg_parse_transform(doc[elem].transform)
         IN  IF parsed.ok
             THEN accumulate_on_the_right(par[elem], __mul__(acc, parsed.xform), par)
             ELSE parsed
    ELSE accumulate_on_the_right(par[elem], acc, par)

RECURSIVE svg_find_accumulated_transform(_, _, _)
svg_find_accumulated_transform(elem, acc, par) ==
    IF elem = 0 THEN XfValue(acc)
    ELSE IF doc[elem].transform # NoAttr
    THEN LET parsed == svg_parse_transform(doc[elem].transform)
         IN  IF parsed.ok
             THEN svg_find_accumulated_transform(par[elem], __mul__(parsed.xform, acc), par)
             ELSE parsed
    ELSE svg_find_accumulated_transform(par[elem], acc, par)

\* compute_svg_transform of svg2latex.py: the same walk with that file's
\* parser and product
RECURSIVE compute_svg_transform(_, _, _)
compute_svg_transform(elem, acc, par) ==
    IF elem = 0 THEN XfValue(acc)
    ELSE IF doc[elem].transform # NoAttr
    THEN LET parsed == parse_svg_transform(doc[elem].transform)
         IN  IF parsed.ok
             THEN compute_svg_transform(par[elem], latex__mul__(parsed.xform, acc), par)
             ELSE parsed
    ELSE compute_svg_transform(par[elem], acc, par)

\* codecs.escape_decode: backslash-n is a newline, backslash-backslash a backslash
RECURSIVE decode_escaped_string(_)
decode_escaped_string(s) ==
    IF s = <<>> THEN <<>>
    ELSE IF Head(s) = "\\" /\ Len(s) > 1
    THEN (IF s[2] = "n" THEN <<"\n">> ELSE <<s[2]>>)
         \o decode_escaped_string(Tail(Tail(s)))
    ELSE <<Head(s)>> \o decode_escaped_string(Tail(s))

\* os.path.splitext(path)[1]: from the last dot on
RECURSIVE splitext(_)
splitext(path) ==
    IF path = <<>> THEN <<>>
    ELSE IF path[Len(path)] = "." THEN <<".">>
    ELSE LET r == splitext(SubSeq(path, 1, Len(path) - 1))
         IN  IF r = <<>> THEN <<>> ELSE r \o <<path[Len(path)]>>

\* 'image{}{}'.format(image_id, image_ext)
LocalPath(id, ext) == [stem |-> "image", id |-> id, ext |-> ext]
GraphicOnlyPdf == [stem |-> "graphic_only", id |-> 0, ext |-> <<".", "pdf">>]

\* el.attrib.get(name, '0')
GetOrZero(a) == IF a = <<>> THEN <<"0">> ELSE a

\* the orders in which a set may be iterated
Orders(S) ==
    {p \in [1..Cardinality(S) -> S] : \A i, j \in 1..Cardinality(S) : p[i] = p[j] => i = j}

RECURSIVE ReadAll(_)
ReadAll(paths) ==
    IF paths = <<>> THEN <<>> ELSE PreambleLines(Head(paths)) \o ReadAll(Tail(paths))

Element(ekind, esrc, exform, esvg, etex, ecode) ==
    [kind |-> ekind, src |-> esrc, xform |-> exform, svg_pos |-> esvg,
     tex_pos |-> etex, texcode |-> ecode]

TexCode(tcmd, tw, th, tfile, tbody) ==
    [cmd |-> tcmd, w |-> tw, h |-> th, file |-> tfile, body |-> tbody]

RunInit ==
    /\ \E n \in 1..MaxNodes : \E up \in Trees(n) : \E choice \in [2..n -> NodeChoices] :
          doc = MkDoc(n, up, choice)
    /\ parent = [n \in 1..Len(doc) |-> doc[n].up]
    /\ pic = NoPic /\ image_id = 0 /\ preamble_files = {} /\ queue = <<>>
    /\ pc = "start" /\ workdir = {} /\ calls = <<>> /\ err = "none"
    /\ svgfile = {} /\ texfile = <<>>
    /\ impl = "svg2pdf" /\ pt = NoPt
    /\ LenIdle /\ AlgIdle /\ ScaleIdle /\ AccIdle

Raise(e) == pc' = "failed" /\ err' = e

nonRun == <<lenVars, impl, pt, algVars, scaleVars, accVars>>

\* convert_svg_to_texpic up to the call of extract_images_to_texpic, and that
\* function up to its loop
ConvertBegin ==
    /\ pc = "start"
    /\ LET width  == svg_parse_length(doc[1].node.width, TRUE)
           height == svg_parse_length(doc[1].node.height, TRUE)
       IN  IF ~width.ok \/ ~height.ok \/ ~NumIsInt(width.value) \/ ~NumIsInt(height.value)
           THEN /\ Raise("invalid length")
                /\ UNCHANGED <<pic, image_id, queue>>
           ELSE /\ pic' = [NoPic EXCEPT !.width = NumToInt(width.value),
                                        !.height = NumToInt(height.value)]
                /\ image_id' = 1
                /\ queue' = xpath({n \in Nodes : IsImage(n)}, parent)
                /\ pc' = "images"
                /\ err' = err
    /\ UNCHANGED <<doc, parent, preamble_files, workdir, calls, svgfile, texfile, nonRun>>

\* the body of the loop of extract_images_to_texpic for element el, given the
\* values its calls return
ExtractImageBody(el, width, height, xform, xlen, ylen) ==
    IF doc[el].node.width = <<>> \/ doc[el].node.height = <<>>
    THEN Raise("KeyError") /\ UNCHANGED <<parent, pic, queue, workdir>>
    ELSE IF ~width.ok \/ ~height.ok \/ ~xlen.ok \/ ~ylen.ok
    THEN Raise("invalid length") /\ UNCHANGED <<parent, pic, queue, workdir>>
    ELSE IF ~xform.ok
    THEN Raise(xform.err) /\ UNCHANGED <<parent, pic, queue, workdir>>
    ELSE IF doc[el].node.href \notin SourceFiles
    THEN Raise("FileNotFoundError") /\ UNCHANGED <<parent, pic, queue, workdir>>
    ELSE LET svg_pos   == <<NumToInt(xlen.value), NumToInt(ylen.value)>>
             pos       == applyTo(xform.xform, svg_pos[1], svg_pos[2])
             localpath == LocalPath(image_id, splitext(doc[el].node.href))
             node      == Element("image", el, xform.xform, svg_pos,
                                  <<pos[1], pic.height - pos[2] - NumToInt(height.value)>>,
                                  TexCode("includegraphics", NumToInt(width.value),
                                          NumToInt(height.value), localpath, <<>>))
         IN  /\ workdir' = {wf \in workdir : wf.name # localpath}
                              \cup {[name |-> localpath, content |-> doc[el].node.href]}
             /\ pic' = [pic EXCEPT !.nodes = Append(@, node)]
             /\ parent' = [parent EXCEPT ![el] = 0]
             /\ queue' = Tail(queue)
             /\ pc' = pc /\ err' = err

\* one iteration of the loop of extract_images_to_texpic
ExtractImage ==
    /\ pc = "images" /\ queue # <<>>
    /\ ExtractImageBody(Head(queue),
                        svg_parse_length(doc[Head(queue)].node.width, TRUE),
                        svg_parse_length(doc[Head(queue)].node.height, TRUE),
                        svg_find_accumulated_transform(Head(queue), AffineTransform, parent),
                        svg_parse_length(GetOrZero(<<>>), TRUE),
                        svg_parse_length(GetOrZero(doc[Head(queue)].node.y), TRUE))
    /\ UNCHANGED <<doc, image_id, preamble_files, calls, svgfile, texfile, nonRun>>

\* extract_images_to_texpic returns; convert_svg_to_texpic appends the
\* background node and calls extract_text_to_texpic, which runs up to its
\* first loop
ImagesDone ==
    /\ pc = "images" /\ queue = <<>>
    /\ LET bgnode == Element("bg", 0, AffineTransform, <<0, 0>>, <<0, 0>>,
                             TexCode("put00includegraphics", 0, 0, GraphicOnlyPdf, <<>>))
       IN  pic' = [pic EXCEPT !.nodes = Append(@, bgnode)]
    /\ queue' = xpath({n \in Nodes : IsText(n)}, parent)
    /\ pc' = "text"
    /\ UNCHANGED <<doc, parent, image_id, preamble_files, workdir, calls, err,
                   svgfile, texfile, nonRun>>

\* one iteration of the svg:text loop of extract_text_to_texpic
StripText ==
    /\ pc = "text" /\ queue # <<>>
    /\ LET el    == Head(queue)
           xform == svg_find_accumulated_transform(el, AffineTransform, parent)
           xlen  == svg_parse_length(GetOrZero(<<>>), TRUE)
           ylen  == svg_parse_length(GetOrZero(doc[el].node.y), TRUE)
       IN  IF ~xform.ok
           THEN Raise(xform.err) /\ UNCHANGED <<parent, queue>>
           ELSE IF ~xlen.ok \/ ~ylen.ok
           THEN Raise("invalid length") /\ UNCHANGED <<parent, queue>>
           ELSE /\ parent' = [parent EXCEPT ![el] = 0]
                /\ queue' = Tail(queue)
                /\ pc' = pc /\ err' = err
    /\ UNCHANGED <<doc, pic, image_id, preamble_files, workdir, calls,
                   svgfile, texfile, nonRun>>

\* the svg:text loop ends; preamble_files = set(); the textext query
TextDone ==
    /\ pc = "text" /\ queue = <<>>
    /\ preamble_files' = {}
    /\ queue' = xpath({n \in Nodes : HasTextext(n)}, parent)
    /\ pc' = "textext"
    /\ UNCHANGED <<doc, parent, pic, image_id, workdir, calls, err,
                   svgfile, texfile, nonRun>>

\* the textext loop body with the position taken from the whole transform
\* (the node's own x, y attributes mapped by it) instead of its translation
ExtractTextextBody_full_transform(el, textext, preamble_src, xform) ==
    IF ~xform.ok
    THEN /\ Raise(xform.err)
         /\ preamble_files' = preamble_files \cup {preamble_src}
         /\ UNCHANGED <<parent, pic, queue>>
    ELSE LET at   == applyTo(xform.xform, 1, 1)
             node == Element("text", el, xform.xform, <<1, 1>>,
                             <<at[1], pic.height - at[2]>>,
                             TexCode("makebox_varwidth", 0, 0, GraphicOnlyPdf, textext))
         IN  /\ preamble_files' = preamble_files \cup {preamble_src}
             /\ pic' = [pic EXCEPT !.nodes = Append(@, node)]
             /\ parent' = [parent EXCEPT ![el] = 0]
             /\ queue' = Tail(queue)
             /\ pc' = pc /\ err' = err

\* the body of the textext loop of extract_text_to_texpic for element el,
\* given the values its calls return
ExtractTextextBody(el, textext, preamble_src, xform) ==
    IF ~xform.ok
    THEN /\ Raise(xform.err)
         /\ preamble_files' = preamble_files \cup {preamble_src}
         /\ UNCHANGED <<parent, pic, queue>>
    ELSE LET node == Element("text", el, xform.xform, <<0, 0>>,
                             <<xform.xform.t[1], pic.height - xform.xform.t[2]>>,
                             TexCode("makebox_varwidth", 0, 0, GraphicOnlyPdf, textext))
         IN  /\ preamble_files' = preamble_files \cup {preamble_src}
             /\ pic' = [pic EXCEPT !.nodes = Append(@, node)]
             /\ parent' = [parent EXCEPT ![el] = 0]
             /\ queue' = Tail(queue)
             /\ pc' = pc /\ err' = err

\* one iteration of the textext loop of extract_text_to_texpic
ExtractTextext ==
    /\ pc = "textext" /\ queue # <<>>
    /\ ExtractTextextBody(Head(queue),
                          decode_escaped_string(doc[Head(queue)].node.textext),
                          decode_escaped_string(doc[Head(queue)].node.preamble),
                          svg_find_accumulated_transform(Head(queue), AffineTransform, parent))
    /\ UNCHANGED <<doc, image_id, workdir, calls, svgfile, texfile, nonRun>>

\* the preamble loop of extract_text_to_texpic, which iterates a set, and the
\* return of convert_svg_to_texpic
ReadPreambles ==
    /\ pc = "textext" /\ queue = <<>>
    /\ IF \E pf \in preamble_files : pf \notin ReadableFiles
       THEN Raise("FileNotFoundError") /\ UNCHANGED pic
       ELSE /\ \E order \in Orders(preamble_files) :
                  pic' = [pic EXCEPT !.extra_preamble = ReadAll(order)]
            /\ pc' = "converted" /\ err' = err
    /\ UNCHANGED <<doc, parent, image_id, preamble_files, queue, workdir, calls,
                   svgfile, texfile, nonRun>>

\* generate_pdf_from_svg that waits for inkscape and goes on whatever its exit
\* code (as generate_pdf_from_svg of svg2latex.py does)
GeneratePdfFromSvg_unchecked ==
    /\ pc = "converted"
    /\ svgfile' = {n \in Nodes : InTree(n, parent)}
    /\ \E code \in {0, 1} :
          calls' = Append(calls, [tool |-> "inkscape", exit |-> code])
    /\ pc' = "rendered"
    /\ UNCHANGED <<doc, parent, pic, image_id, preamble_files, queue, workdir,
                   err, texfile, nonRun>>

\* generate_pdf_from_svg: the working tree is written out and inkscape run on
\* it with subprocess.check_call
GeneratePdfFromSvg ==
    /\ pc = "converted"
    /\ svgfile' = {n \in Nodes : InTree(n, parent)}
    /\ \E code \in {0, 1} :
          /\ calls' = Append(calls, [tool |-> "inkscape", exit |-> code])
          /\ IF code # 0 THEN Raise("CalledProcessError")
             ELSE pc' = "rendered" /\ err' = err
    /\ UNCHANGED <<doc, parent, pic, image_id, preamble_files, queue, workdir,
                   texfile, nonRun>>

\* texpic.emit_standalone(texfile): the \put lines in list order (round(.,3)
\* leaves the integer positions of this model as they are)
EmitStandalone ==
    /\ pc = "rendered"
    /\ texfile' = <<[head |-> pic.extra_preamble, width |-> pic.width,
                     height |-> pic.height]>>
                  \o [k \in 1..Len(pic.nodes) |->
                        [x |-> pic.nodes[k].tex_pos[1], y |-> pic.nodes[k].tex_pos[2],
                         texcode |-> pic.nodes[k].texcode]]
    /\ pc' = "emitted"
    /\ UNCHANGED <<doc, parent, pic, image_id, preamble_files, queue, workdir,
                   calls, err, svgfile, nonRun>>

\* execute_latex: pdflatex run with subprocess.check_call
ExecuteLatex ==
    /\ pc = "emitted"
    /\ \E code \in {0, 1} :
          /\ calls' = Append(calls, [tool |-> "pdflatex", exit |-> code])
          /\ IF code # 0 THEN Raise("CalledProcessError")
             ELSE pc' = "done" /\ err' = err
    /\ UNCHANGED <<doc, parent, pic, image_id, preamble_files, queue, workdir,
                   svgfile, texfile, nonRun>>

Next ==
    \/ ConvertBegin
    \/ ExtractImage
    \/ ImagesDone
    \/ StripText
    \/ TextDone
    \/ ExtractTextext
    \/ ReadPreambles
    \/ GeneratePdfFromSvg
    \/ EmitStandalone
    \/ ExecuteLatex

Spec == RunInit /\ [][Next]_vars

(***************************************************************************)
(* The accumulated transform of an element: svg_find_accumulated_transform *)
(* of svg2pdf.py and compute_svg_transform of svg2latex.py, called on an   *)
(* element of a tree whose every node, the root included, may carry a      *)
(* transform attribute.  The tree is the working tree: one element may     *)
(* have been unlinked from its parent by an earlier removal.               *)
(***************************************************************************)
Scale2 == [func |-> "scale", args |-> <<2>>]
AccAttrs == {NoAttr, Translate12, Rotation12, Scale2, Rotate90}

AccInit ==
    /\ impl \in Impls /\ pt \in Points
    /\ \E n \in 1..MaxNodes : \E up \in Trees(n) : \E attr \in [1..n -> AccAttrs] :
          doc = [i \in 1..n |->
                   [node |-> IF i = 1 THEN RootNode ELSE Plain("g"),
                    transform |-> attr[i], up |-> up[i]]]
    \* unlinked = 1 is the tree as it was read: the root has no parent
    /\ \E unlinked \in 1..Len(doc) :
          parent = [i \in 1..Len(doc) |-> IF i = unlinked THEN 0 ELSE doc[i].up]
    /\ accel \in 1..Len(doc) /\ accres = NoAcc /\ accimg = NoPt
    /\ pic = NoPic /\ image_id = 0 /\ preamble_files = {} /\ queue = <<>>
    /\ pc = "idle" /\ workdir = {} /\ calls = <<>> /\ err = "none"
    /\ svgfile = {} /\ texfile = <<>>
    /\ LenIdle /\ AlgIdle /\ ScaleIdle

\* accres = svg_find_accumulated_transform(el) / compute_svg_transform(el)
CallAccumulate ==
    /\ accres = NoAcc
    /\ accres' = IF impl = "svg2pdf"
                 THEN svg_find_accumulated_transform(accel, AffineTransform, parent)
                 ELSE compute_svg_transform(accel, AffineTransform, parent)
    /\ UNCHANGED <<lenVars, impl, pt, algVars, scaleVars, runVars, accel, accimg>>

\* accimg = xform.applyTo(pt), xform the transform returned
CallApplyAccumulated ==
    /\ accres.ok /\ accimg = NoPt
    /\ accimg' = Apply(impl, accres.xform, pt)
    /\ UNCHANGED <<lenVars, impl, pt, algVars, scaleVars, runVars, accel, accres>>

AccNext == CallAccumulate \/ CallApplyAccumulated

SpecAcc == AccInit /\ [][AccNext]_vars

(***************************************************************************)
(* Definitions the properties below are stated with.                       *)
(***************************************************************************)
OriginalParent == [n \in Nodes |-> doc[n].up]

\* convert_svg_to_texpic has returned
Converted ==
    \/ pc \in {"converted", "rendered", "emitted", "done"}
    \/ pc = "failed" /\ calls # <<>>

ImageNodes == Ascending({n \in Nodes : IsImage(n)}, 1, Len(doc))
AnnotationNodes == Ascending({n \in Nodes : HasTextext(n)}, 1, Len(doc))

ElementSources == [k \in 1..Len(pic.nodes) |-> pic.nodes[k].src]
ElementKinds == [k \in 1..Len(pic.nodes) |-> pic.nodes[k].kind]

ExtractedNode(n) == IsImage(n) \/ HasTextext(n)

\* n lies in the subtree of an image or annotation node of the document
InExtractedSubtree(n) ==
    \E a \in Nodes : ExtractedNode(a) /\ IsAncestorOrSelf(a, n, OriginalParent)

\* C1: once convert_svg_to_texpic has returned, no image or annotation node is
\* in the working tree and the page's elements are the image nodes in
\* document order, then the background placeholder at (0,0), then the
\* annotation nodes in document order.
C1_LayersOfAllNodes ==
    Converted =>
        /\ \A n \in Nodes : ExtractedNode(n) => ~InTree(n, parent)
        /\ ElementSources = ImageNodes \o <<0>> \o AnnotationNodes
        /\ \A k \in 1..Len(pic.nodes) :
              /\ k <= Len(ImageNodes) => pic.nodes[k].kind = "image"
              /\ k = Len(ImageNodes) + 1 =>
                    pic.nodes[k].kind = "bg" /\ pic.nodes[k].tex_pos = <<0, 0>>
              /\ k > Len(ImageNodes) + 1 => pic.nodes[k].kind = "text"

\* C2: when the renderer reads the tree, every node that is neither an image
\* node nor an annotation node, and is not inside the subtree unlinked with
\* one, is still in it (plain svg:text nodes included).
C2_OtherNodesRendered ==
    calls # <<>> =>
        \A n \in Nodes : ~InExtractedSubtree(n) => n \in svgfile

\* the text of the call is a value token directly followed by a unit of the
\* scale table (or by nothing), with nothing around it
ValueThenTableUnit ==
    /\ RX_LENGTH(text).ok
    /\ RX_LENGTH(text).vfrom = 1
    /\ RX_LENGTH(text).vto + Len(RX_LENGTH(text).unit) = Len(text) + 1
    /\ UnitString(RX_LENGTH(text).unit) \in {"None", "px", "in", "cm", "mm", "pt", "pc"}

TableUnit == IF UnitString(RX_LENGTH(text).unit) = "None" THEN ""
             ELSE UnitString(RX_LENGTH(text).unit)

\* C3: the length "v" followed by a unit u of the table resolves to v times
\* the scale constant of u.
C3_ResolvedLengthIsValueTimesScale ==
    (lenpc = "applied" /\ ValueThenTableUnit) =>
        /\ lenres.ok
        /\ lenres.value = NumMul(Float(text, 1, RX_LENGTH(text).vto),
                                 UNIT_SCALE_TO_USER_UNITS(TableUnit))

\* the image elements of the page, in list order
RECURSIVE SelectKind(_, _)
SelectKind(nodes, kind) ==
    IF nodes = <<>> THEN <<>>
    ELSE IF Head(nodes).kind = kind THEN <<Head(nodes)>> \o SelectKind(Tail(nodes), kind)
    ELSE SelectKind(Tail(nodes), kind)

ImageElements == SelectKind(pic.nodes, "image")
TextElements == SelectKind(pic.nodes, "text")

\* C4: the k-th extracted image is copied to image<k><ext>; no two image
\* elements name the same local file and every copy is still there.
C4_SequentialImageNames ==
    \A k \in 1..Len(ImageElements) :
        /\ ImageElements[k].texcode.file =
              LocalPath(k, splitext(doc[ImageElements[k].src].node.href))
        /\ \A j \in 1..Len(ImageElements) :
              ImageElements[j].texcode.file = ImageElements[k].texcode.file => j = k
        /\ [name |-> ImageElements[k].texcode.file,
            content |-> doc[ImageElements[k].src].node.href] \in workdir

ExtractionErrors ==
    {"invalid length", "KeyError", "FileNotFoundError", "bad matrix transform",
     "bad translate transform", "bad scale transform", "unsupported transform attribute"}

Tools == [k \in 1..Len(calls) |-> calls[k].tool]

\* C5: the external tools are invoked in the order renderer, typesetting
\* engine; the renderer only after extraction has run to its end without an
\* error (no image or annotation node is left in the tree it reads, the
\* background placeholder is on the page), the typesetting engine only after
\* the renderer has exited with 0; after an extraction error no tool is ever
\* invoked.
C5_StagesInOrder ==
    /\ Tools \in {<<>>, <<"inkscape">>, <<"inkscape", "pdflatex">>}
    /\ calls # <<>> =>
          /\ err \notin ExtractionErrors
          /\ queue = <<>>
          /\ \A n \in svgfile : ~ExtractedNode(n)
          /\ \A n \in Nodes : IsText(n) => n \notin svgfile
          /\ \E k \in 1..Len(pic.nodes) : pic.nodes[k].kind = "bg"
    /\ Len(calls) = 2 => calls[1].exit = 0 /\ texfile # <<>>
    /\ err \in ExtractionErrors => calls = <<>> /\ svgfile = {} /\ texfile = <<>>
    /\ pc = "done" => Len(calls) = 2 /\ calls[2].exit = 0

C5_RendererFailedWitness ==
    /\ pc = "failed" /\ err = "CalledProcessError"
    /\ Len(calls) = 1 /\ calls[1].exit = 1
    /\ Len(pic.nodes) = 3

\* C6: (A * B).applyTo(p) = A.applyTo(B.applyTo(p)), the identity maps p to
\* itself, and the operands of * are what they were.
C6_CompositionLaw ==
    /\ (lhs # NoPt /\ rhs # NoPt) => lhs = rhs
    /\ idimg # NoPt => idimg = pt
    /\ xfC # NoXf => <<xfA, xfB>> = operands

C6_NonCommutingWitness ==
    /\ lhs # NoPt /\ rhs # NoPt /\ idimg # NoPt
    /\ Mul(impl, xfA, xfB) # Mul(impl, xfB, xfA)
    /\ xfA.t # <<0, 0>> /\ xfB.t # <<0, 0>>
    /\ lhs # pt

\* the distinct entries of a sequence, in the order of their first occurrence
RECURSIVE FirstOccurrences(_, _)
FirstOccurrences(seq, seen) ==
    IF seq = <<>> THEN <<>>
    ELSE IF Head(seq) \in seen THEN FirstOccurrences(Tail(seq), seen)
    ELSE <<Head(seq)>> \o FirstOccurrences(Tail(seq), seen \cup {Head(seq)})

ExtractedPreambles ==
    [k \in 1..Len(TextElements) |->
        decode_escaped_string(doc[TextElements[k].src].node.preamble)]

\* C7: the page's preamble is the content of the preamble files of the
\* extracted annotation nodes, each distinct file once, in the order of first
\* encounter.
C7_PreambleInFirstEncounterOrder ==
    Converted =>
        pic.extra_preamble = ReadAll(FirstOccurrences(ExtractedPreambles, {}))

\* the texts of the length grammar: optional blanks, a numeric token (sign,
\* digits with an optional point or a point and digits, optional exponent), at
\* most one unit of the vocabulary, optional blanks
AllDigits(s) == s # <<>> /\ \A i \in 1..Len(s) : s[i] \in Digits
Unsigned(s) == IF s # <<>> /\ s[1] \in {"+", "-"} THEN Tail(s) ELSE s
IsMantissa(s) ==
    \/ AllDigits(s)
    \/ \E i \in 1..Len(s) :
          /\ s[i] = "."
          /\ \A j \in 1..Len(s) : j # i => s[j] \in Digits
          /\ Len(s) > 1
IsNumericToken(s) ==
    \/ IsMantissa(Unsigned(s))
    \/ \E i \in 1..Len(s) :
          /\ Lower(s[i]) = "e"
          /\ IsMantissa(Unsigned(SubSeq(s, 1, i - 1)))
          /\ AllDigits(Unsigned(SubSeq(s, i + 1, Len(s))))
IsBlank(s) == \A i \in 1..Len(s) : IsSpace(s[i])
IsUnitOrNothing(s) ==
    \/ s = <<>>
    \/ s = <<"%">>
    \/ Len(s) = 2 /\ \E k \in 1..Len(UnitAlternatives) :
                        <<Lower(s[1]), Lower(s[2])>> = UnitChars(UnitAlternatives[k])
InLengthGrammar(s) ==
    \E a \in 0..Len(s) : \E b \in a..Len(s) : \E c \in b..Len(s) :
        /\ IsBlank(SubSeq(s, 1, a))
        /\ IsNumericToken(SubSeq(s, a + 1, b))
        /\ IsUnitOrNothing(SubSeq(s, b + 1, c))
        /\ IsBlank(SubSeq(s, c + 1, Len(s)))

\* C8: a text outside the length grammar is rejected with an error, with or
\* without apply_unit.
C8_MalformedLengthRejected ==
    (lenpc \in {"applied", "raw"} /\ ~InLengthGrammar(text)) => ~lenres.ok

ScaleX == sargs[1]
ScaleY == IF Len(sargs) > 1 THEN sargs[2] ELSE sargs[1]

\* C9: scale(sx, sy), called or parsed, in either file, maps (x, y) to
\* (sx*x, sy*y), sy defaulting to sx, and has translation part (0, 0).
C9_ScaleIsMultiplicative ==
    how \in {"scale", "parse"} =>
        /\ xf.t = <<0, 0>>
        /\ img # NoPt => img = <<ScaleX * pt[1], ScaleY * pt[2]>>

\* the accumulated transform of node n in the document as it was read
DocumentTransform(n) ==
    svg_find_accumulated_transform(n, AffineTransform, OriginalParent).xform

HasAnnotationAbove(n) ==
    \E a \in Nodes : a # n /\ HasTextext(a) /\ IsAncestorOrSelf(a, n, OriginalParent)

Parse(i, attribute) ==
    IF i = "svg2pdf" THEN svg_parse_transform(attribute) ELSE parse_svg_transform(attribute)

\* the elements from the top of n's parent chain down to n
RECURSIVE AncestorChain(_, _)
AncestorChain(n, par) ==
    IF n = 0 THEN <<>> ELSE Append(AncestorChain(par[n], par), n)

\* T(x): the parsed transform attribute of x, the identity when it has none
T(i, x) ==
    IF doc[x].transform = NoAttr THEN AffineTransform
    ELSE Parse(i, doc[x].transform).xform

ChainParses(i, chain) ==
    \A k \in 1..Len(chain) :
        doc[chain[k]].transform # NoAttr => Parse(i, doc[chain[k]].transform).ok

\* T(chain[1]) * T(chain[2]) * ... * T(chain[k]), multiplied from the left
RECURSIVE ChainProduct(_, _, _)
ChainProduct(i, chain, k) ==
    IF k = 0 THEN AffineTransform
    ELSE Mul(i, ChainProduct(i, chain, k - 1), T(i, chain[k]))

\* p mapped by T(chain[k]), then by T(chain[k-1]), ..., last by T(chain[1])
RECURSIVE ApplyInwardOut(_, _, _, _)
ApplyInwardOut(i, chain, k, p) ==
    IF k = 0 THEN p
    ELSE ApplyInwardOut(i, chain, k - 1, Apply(i, T(i, chain[k]), p))

\* C11: the accumulated transform of an element is T(a0) * T(a1) * ... * T(ak)
\* over its ancestor chain a0 (topmost) .. ak (the element), T the parsed
\* transform attribute or the identity; applied to a point it applies the
\* element's own transform first and the topmost ancestor's last.  It is
\* returned exactly when every attribute on the chain parses.
C11_AccumulatedIsChainProduct ==
    accres # NoAcc =>
        /\ accres.ok = ChainParses(impl, AncestorChain(accel, parent))
        /\ accres.ok =>
              accres.xform = ChainProduct(impl, AncestorChain(accel, parent),
                                          Len(AncestorChain(accel, parent)))
        /\ accimg # NoPt =>
              accimg = ApplyInwardOut(impl, AncestorChain(accel, parent),
                                      Len(AncestorChain(accel, parent)), pt)

\* a chain of three elements from the document root, each with a transform,
\* whose product in the opposite order is another transform
C11_ThreeDeepWitness ==
    /\ accimg # NoPt /\ accimg # pt
    /\ AncestorChain(accel, parent) = <<1, 2, 3>>
    /\ \A x \in {1, 2, 3} : doc[x].transform # NoAttr
    /\ doc[1].transform # doc[2].transform /\ doc[2].transform # doc[3].transform
    /\ accres.xform # Mul(impl, Mul(impl, T(impl, 3), T(impl, 2)), T(impl, 1))

====
